---- MODULE Spec2Model ----
(***************************************************************************)
(* A model of src/src/circuit-breaker.ts: the CircuitBreaker state machine *)
(* (canExecute, recordSuccess, recordFailure, reset, setConfig, getStatus  *)
(* and the read accessors), with Date.now() as a clock that only advances  *)
(* and EventEmitter.emit as a synchronous call of the listeners, which may *)
(* throw.                                                                  *)
(***************************************************************************)
EXTENDS Integers, Sequences, FiniteSets, TLC

\* ------------------------------------------------------------------ bounds
MaxTime == 2          \* the clock runs over 1..MaxTime
MaxFail == 3          \* recordFailure is called while failureCount < MaxFail
MaxSucc == 1          \* recordSuccess is called while successCount < MaxSucc
MaxThreshold == 2     \* config.failureThreshold ranges over 1..MaxThreshold
MaxTimeout == 1       \* config.recoveryTimeout ranges over 0..MaxTimeout
MaxAttempts == 2      \* config.halfOpenAttempts ranges over 1..MaxAttempts
MaxPermits == 3       \* permission checks per half-open episode that are counted
MaxInstances == 2     \* CircuitBreaker objects a manager makes

\* ------------------------------------------------------ CircuitState values
CLOSED == "closed"
OPEN == "open"
HALF_OPEN == "half-open"

CircuitState == {CLOSED, OPEN, HALF_OPEN}

\* ------------------------------------------------------------ configuration
ConfigKeys == {"failureThreshold", "recoveryTimeout", "halfOpenAttempts"}

KeyRange(k) ==
  CASE k = "failureThreshold" -> 1..MaxThreshold
    [] k = "recoveryTimeout" -> 0..MaxTimeout
    [] k = "halfOpenAttempts" -> 1..MaxAttempts

\* CircuitBreakerConfig: the records a caller may pass to the constructor
Configs ==
  [failureThreshold : 1..MaxThreshold,
   recoveryTimeout : 0..MaxTimeout,
   halfOpenAttempts : 1..MaxAttempts]

MaxKeyValue ==
  IF MaxThreshold >= MaxTimeout /\ MaxThreshold >= MaxAttempts THEN MaxThreshold
  ELSE IF MaxTimeout >= MaxAttempts THEN MaxTimeout ELSE MaxAttempts

\* the configuration used when the caller passes none
DEFAULT_CIRCUIT_BREAKER_CONFIG ==
  [failureThreshold |-> 5, recoveryTimeout |-> 60000, halfOpenAttempts |-> 3]

\* Partial<CircuitBreakerConfig>: any subset of the keys, each with a value
PartialConfigs ==
  {p \in UNION {[S -> 0..MaxKeyValue] : S \in SUBSET ConfigKeys} :
     \A k \in DOMAIN p : p[k] \in KeyRange(k)}

\* { ...this.config, ...config }
MergeConfig(c, p) ==
  [k \in DOMAIN c |-> IF k \in DOMAIN p THEN p[k] ELSE c[k]]

\* ------------------------------------------------------------- the breaker
\* new CircuitBreaker(agentName, config): the field initialisers and constructor
NewBreaker(config) ==
  [state |-> CLOSED,
   failureCount |-> 0,
   successCount |-> 0,
   lastFailureTime |-> 0,
   halfOpenAttempts |-> 0,
   config |-> config]

\* What a call leaves behind: the breaker, what it returned ("throw" when an
\* exception left the call), whether a listener threw, and the notifications
\* it emitted, in order.
Res(cb, ret, threw, events) ==
  [cb |-> cb, ret |-> ret, threw |-> threw, events |-> events]

\* this.emit(kind, payload) with thr saying whether a listener of kind throws
OpenedEvent(cb) ==
  [kind |-> "opened", failureCount |-> cb.failureCount,
   threshold |-> cb.config.failureThreshold]

ClosedEvent(cb) == [kind |-> "closed", successCount |-> cb.successCount]

HalfOpenEvent == [kind |-> "half-open", attemptNumber |-> 0]

ResetEvent == [kind |-> "reset"]

shouldAttemptRecovery(cb, t) ==
  t - cb.lastFailureTime >= cb.config.recoveryTimeout

transitionToOpenKeepAttempts(cb, thr) ==
  IF cb.state # OPEN
  THEN Res([cb EXCEPT !.state = OPEN], "void", thr, <<OpenedEvent(cb)>>)
  ELSE Res(cb, "void", FALSE, <<>>)

transitionToOpen(cb, thr) ==
  IF cb.state # OPEN
  THEN Res([cb EXCEPT !.state = OPEN, !.halfOpenAttempts = 0],
           "void", thr, <<OpenedEvent(cb)>>)
  ELSE Res(cb, "void", FALSE, <<>>)

transitionToClosedKeepFailures(cb, thr) ==
  IF cb.state # CLOSED
  THEN Res([cb EXCEPT !.state = CLOSED, !.halfOpenAttempts = 0],
           "void", thr, <<ClosedEvent(cb)>>)
  ELSE Res(cb, "void", FALSE, <<>>)

transitionToClosed(cb, thr) ==
  IF cb.state # CLOSED
  THEN Res([cb EXCEPT !.state = CLOSED, !.failureCount = 0,
                      !.halfOpenAttempts = 0],
           "void", thr, <<ClosedEvent(cb)>>)
  ELSE Res(cb, "void", FALSE, <<>>)

transitionToHalfOpenKeepState(cb, thr) ==
  IF cb.state # HALF_OPEN
  THEN LET c == [cb EXCEPT !.halfOpenAttempts = 0]
       IN  IF thr
           THEN Res(c, "throw", TRUE, <<HalfOpenEvent>>)
           ELSE Res([c EXCEPT !.halfOpenAttempts = @ + 1], "void", FALSE,
                    <<HalfOpenEvent>>)
  ELSE Res([cb EXCEPT !.halfOpenAttempts = @ + 1], "void", FALSE, <<>>)

\* The increment is the statement after the emit: a listener that throws
\* leaves halfOpenAttempts at 0.
transitionToHalfOpen(cb, thr) ==
  IF cb.state # HALF_OPEN
  THEN LET c == [cb EXCEPT !.state = HALF_OPEN, !.halfOpenAttempts = 0]
       IN  IF thr
           THEN Res(c, "throw", TRUE, <<HalfOpenEvent>>)
           ELSE Res([c EXCEPT !.halfOpenAttempts = @ + 1], "void", FALSE,
                    <<HalfOpenEvent>>)
  ELSE Res([cb EXCEPT !.halfOpenAttempts = @ + 1], "void", FALSE, <<>>)

BoolRet(b) == IF b THEN "true" ELSE "false"

canExecute(cb, t, thr) ==
  CASE cb.state = CLOSED -> Res(cb, "true", FALSE, <<>>)
    [] cb.state = OPEN ->
         IF shouldAttemptRecovery(cb, t)
         THEN LET r == transitionToHalfOpen(cb, thr)
              IN  Res(r.cb, IF r.threw THEN "throw" ELSE "true", r.threw, r.events)
         ELSE Res(cb, "false", FALSE, <<>>)
    [] cb.state = HALF_OPEN ->
         Res(cb, BoolRet(cb.halfOpenAttempts < cb.config.halfOpenAttempts),
             FALSE, <<>>)
    [] OTHER -> Res(cb, "false", FALSE, <<>>)

Max(a, b) == IF a >= b THEN a ELSE b

recordSuccessClosesFromOpen(cb, thr) ==
  LET c == [cb EXCEPT !.successCount = @ + 1]
  IN  IF c.state # CLOSED
      THEN LET r == transitionToClosed(c, thr)
           IN  Res(r.cb, IF r.threw THEN "throw" ELSE "void", r.threw, r.events)
      ELSE Res([c EXCEPT !.failureCount = Max(0, @ - 1)], "void", FALSE, <<>>)

recordSuccessNoFloor(cb, thr) ==
  LET c == [cb EXCEPT !.successCount = @ + 1]
  IN  IF c.state = HALF_OPEN
      THEN LET r == transitionToClosed(c, thr)
           IN  Res(r.cb, IF r.threw THEN "throw" ELSE "void", r.threw, r.events)
      ELSE IF c.state = CLOSED
      THEN Res([c EXCEPT !.failureCount = @ - 1], "void", FALSE, <<>>)
      ELSE Res(c, "void", FALSE, <<>>)

recordSuccess(cb, thr) ==
  LET c == [cb EXCEPT !.successCount = @ + 1]
  IN  IF c.state = HALF_OPEN
      THEN LET r == transitionToClosed(c, thr)
           IN  Res(r.cb, IF r.threw THEN "throw" ELSE "void", r.threw, r.events)
      ELSE IF c.state = CLOSED
      THEN Res([c EXCEPT !.failureCount = Max(0, @ - 1)], "void", FALSE, <<>>)
      ELSE Res(c, "void", FALSE, <<>>)

recordFailureAboveThreshold(cb, t, thr) ==
  LET c == [cb EXCEPT !.failureCount = @ + 1, !.lastFailureTime = t]
  IN  IF c.state = HALF_OPEN
      THEN LET r == transitionToOpen(c, thr)
           IN  Res(r.cb, IF r.threw THEN "throw" ELSE "void", r.threw, r.events)
      ELSE IF c.state = CLOSED /\ c.failureCount > c.config.failureThreshold
      THEN LET r == transitionToOpen(c, thr)
           IN  Res(r.cb, IF r.threw THEN "throw" ELSE "void", r.threw, r.events)
      ELSE Res(c, "void", FALSE, <<>>)

recordFailureIgnoredWhileOpen(cb, t, thr) ==
  IF cb.state = OPEN THEN Res(cb, "void", FALSE, <<>>)
  ELSE LET c == [cb EXCEPT !.failureCount = @ + 1, !.lastFailureTime = t]
       IN  IF c.state = HALF_OPEN
               \/ (c.state = CLOSED
                     /\ c.failureCount >= c.config.failureThreshold)
           THEN LET r == transitionToOpen(c, thr)
                IN  Res(r.cb, IF r.threw THEN "throw" ELSE "void", r.threw,
                        r.events)
           ELSE Res(c, "void", FALSE, <<>>)

recordFailure(cb, t, thr) ==
  LET c == [cb EXCEPT !.failureCount = @ + 1, !.lastFailureTime = t]
  IN  IF c.state = HALF_OPEN
      THEN LET r == transitionToOpen(c, thr)
           IN  Res(r.cb, IF r.threw THEN "throw" ELSE "void", r.threw, r.events)
      ELSE IF c.state = CLOSED /\ c.failureCount >= c.config.failureThreshold
      THEN LET r == transitionToOpen(c, thr)
           IN  Res(r.cb, IF r.threw THEN "throw" ELSE "void", r.threw, r.events)
      ELSE Res(c, "void", FALSE, <<>>)

resetKeepTime(cb, thr) ==
  Res([cb EXCEPT !.state = CLOSED, !.failureCount = 0, !.successCount = 0,
                 !.halfOpenAttempts = 0],
      IF thr THEN "throw" ELSE "void", thr, <<ResetEvent>>)

reset(cb, thr) ==
  Res([cb EXCEPT !.state = CLOSED, !.failureCount = 0, !.successCount = 0,
                 !.halfOpenAttempts = 0, !.lastFailureTime = 0],
      IF thr THEN "throw" ELSE "void", thr, <<ResetEvent>>)

setConfig(cb, p) ==
  Res([cb EXCEPT !.config = MergeConfig(@, p)], "void", FALSE, <<>>)

\* The object literal reads state, failureCount and successCount before it
\* calls canExecute(); an exception leaves no record behind.
getStatus(cb, t, thr) ==
  LET r == canExecute(cb, t, thr)
  IN  Res(r.cb,
          IF r.threw THEN "throw"
          ELSE [state |-> cb.state, failureCount |-> cb.failureCount,
                successCount |-> cb.successCount, canExecute |-> r.ret],
          r.threw, r.events)

Accessors ==
  {"getState", "isClosed", "isOpen", "isHalfOpen", "getFailureCount",
   "getSuccessCount", "getConfig"}

accessor(cb, name) ==
  Res(cb,
      CASE name = "getState" -> cb.state
        [] name = "isClosed" -> BoolRet(cb.state = CLOSED)
        [] name = "isOpen" -> BoolRet(cb.state = OPEN)
        [] name = "isHalfOpen" -> BoolRet(cb.state = HALF_OPEN)
        [] name = "getFailureCount" -> cb.failureCount
        [] name = "getSuccessCount" -> cb.successCount
        [] name = "getConfig" -> cb.config,
      FALSE, <<>>)

\* ------------------------------------------------------------- the manager
\* agent names the callers use
Names == {"a", "b"}

\* the configurations the manager's callers pass: one that probes at once
\* and allows a single probe, one that waits and allows two
ManagerConfigs ==
  {[failureThreshold |-> 1, recoveryTimeout |-> 0, halfOpenAttempts |-> 1],
   [failureThreshold |-> 1, recoveryTimeout |-> 1, halfOpenAttempts |-> 2]}

\* the optional config argument of getBreaker: <<>> when it is left out
OptConfigs == {<<>>} \cup {<<c>> : c \in ManagerConfigs}

\* The manager's fields. breakers is the Map as the sequence of its entries
\* in insertion order, which is the order forEach and values() visit them in;
\* id tells the CircuitBreaker objects apart.
Manager(bs, dflt, n) == [breakers |-> bs, defaultConfig |-> dflt, nextId |-> n]

\* this.breakers.get(agentName): the entry's place, 0 when there is none
Find(bs, name) ==
  IF \E i \in 1..Len(bs) : bs[i].name = name
  THEN CHOOSE i \in 1..Len(bs) : bs[i].name = name
  ELSE 0

Without(bs, i) == [j \in 1..(Len(bs) - 1) |-> IF j < i THEN bs[j] ELSE bs[j + 1]]

getBreakerReplacing(m, name, cfg) ==
  LET i == Find(m.breakers, name)
  IN  IF i # 0 /\ cfg = <<>>
      THEN [m |-> m, ret |-> m.breakers[i].id]
      ELSE LET b == [name |-> name, id |-> m.nextId,
                     cb |-> NewBreaker(IF cfg # <<>> THEN cfg[1]
                                       ELSE m.defaultConfig)]
           IN  [m |-> Manager(IF i # 0 THEN [m.breakers EXCEPT ![i] = b]
                              ELSE Append(m.breakers, b),
                              m.defaultConfig, m.nextId + 1),
                ret |-> b.id]

getBreaker(m, name, cfg) ==
  LET i == Find(m.breakers, name)
  IN  IF i # 0
      THEN [m |-> m, ret |-> m.breakers[i].id]
      ELSE LET b == [name |-> name, id |-> m.nextId,
                     cb |-> NewBreaker(IF cfg # <<>> THEN cfg[1]
                                       ELSE m.defaultConfig)]
           IN  [m |-> Manager(Append(m.breakers, b), m.defaultConfig,
                              m.nextId + 1),
                ret |-> b.id]

removeBreakerKeepsEntry(m, name) ==
  [m |-> m, ret |-> BoolRet(Find(m.breakers, name) # 0)]

removeBreaker(m, name) ==
  LET i == Find(m.breakers, name)
  IN  IF i # 0
      THEN [m |-> Manager(Without(m.breakers, i), m.defaultConfig, m.nextId),
            ret |-> "true"]
      ELSE [m |-> m, ret |-> "false"]

setDefaultConfig(m, c) ==
  [m |-> Manager(m.breakers, c, m.nextId), ret |-> "void"]

\* The loops below stop at the first breaker whose listener throws: the
\* exception leaves forEach and the method. thrs are the names of the
\* breakers whose listeners throw.
RECURSIVE ResetFrom(_, _, _)
ResetFrom(bs, i, thrs) ==
  IF i > Len(bs) THEN [bs |-> bs, threw |-> FALSE]
  ELSE LET r == reset(bs[i].cb, bs[i].name \in thrs)
           bs2 == [bs EXCEPT ![i].cb = r.cb]
       IN  IF r.threw THEN [bs |-> bs2, threw |-> TRUE]
           ELSE ResetFrom(bs2, i + 1, thrs)

resetAll(m, thrs) ==
  LET r == ResetFrom(m.breakers, 1, thrs)
  IN  [m |-> Manager(r.bs, m.defaultConfig, m.nextId), ret |-> "void",
       threw |-> r.threw]

RECURSIVE StatusFrom(_, _, _, _, _)
StatusFrom(bs, i, t, thrs, acc) ==
  IF i > Len(bs) THEN [bs |-> bs, ret |-> acc, threw |-> FALSE]
  ELSE LET r == getStatus(bs[i].cb, t, bs[i].name \in thrs)
           bs2 == [bs EXCEPT ![i].cb = r.cb]
       IN  IF r.threw THEN [bs |-> bs2, ret |-> <<>>, threw |-> TRUE]
           ELSE StatusFrom(bs2, i + 1, t, thrs,
                           Append(acc, [name |-> bs[i].name, status |-> r.ret]))

getAllStatus(m, t, thrs) ==
  LET r == StatusFrom(m.breakers, 1, t, thrs, <<>>)
  IN  [m |-> Manager(r.bs, m.defaultConfig, m.nextId), ret |-> r.ret,
       threw |-> r.threw]

\* returns at the first breaker that permits: the later ones are not asked
RECURSIVE AnyFrom(_, _, _, _)
AnyFrom(bs, i, t, thrs) ==
  IF i > Len(bs) THEN [bs |-> bs, ret |-> "false", threw |-> FALSE]
  ELSE LET r == canExecute(bs[i].cb, t, bs[i].name \in thrs)
           bs2 == [bs EXCEPT ![i].cb = r.cb]
       IN  IF r.threw THEN [bs |-> bs2, ret |-> "throw", threw |-> TRUE]
           ELSE IF r.ret = "true" THEN [bs |-> bs2, ret |-> "true", threw |-> FALSE]
           ELSE AnyFrom(bs2, i + 1, t, thrs)

hasAvailableAgent(m, t, thrs) ==
  LET r == AnyFrom(m.breakers, 1, t, thrs)
  IN  [m |-> Manager(r.bs, m.defaultConfig, m.nextId), ret |-> r.ret,
       threw |-> r.threw]

RECURSIVE AvailableFrom(_, _, _, _, _)
AvailableFrom(bs, i, t, thrs, acc) ==
  IF i > Len(bs) THEN [bs |-> bs, ret |-> acc, threw |-> FALSE]
  ELSE LET r == canExecute(bs[i].cb, t, bs[i].name \in thrs)
           bs2 == [bs EXCEPT ![i].cb = r.cb]
       IN  IF r.threw THEN [bs |-> bs2, ret |-> <<>>, threw |-> TRUE]
           ELSE AvailableFrom(bs2, i + 1, t, thrs,
                              IF r.ret = "true" THEN Append(acc, bs[i].name)
                              ELSE acc)

getAvailableAgents(m, t, thrs) ==
  LET r == AvailableFrom(m.breakers, 1, t, thrs, <<>>)
  IN  [m |-> Manager(r.bs, m.defaultConfig, m.nextId), ret |-> r.ret,
       threw |-> r.threw]

\* ------------------------------------------------------------------- state
VARIABLES
  breaker,    \* the CircuitBreaker's fields
  now,        \* Date.now()
  out,        \* the last call: its name, the state value it found, its
              \* result, exception and notifications
  permits,    \* permission checks that returned true in this half-open episode
  run,        \* recordFailure calls in a row since Closed with failureCount 0
              \* (-1: not such a run)
  lastFail,   \* Date.now() at the most recent recordFailure (0: none)
  tickets,    \* per caller: the permission it holds and has not reported on
  breakers,   \* CircuitBreakerManager.breakers, in insertion order
  defaultConfig,  \* CircuitBreakerManager.defaultConfig
  nextId,     \* the number of CircuitBreaker objects the manager has made, + 1
  mout        \* the last call of a manager method

callerVars == <<tickets>>

managerVars == <<breakers, defaultConfig, nextId, mout>>
managerState == <<breakers, defaultConfig, nextId>>

vars == <<breaker, now, out, permits, run, lastFail, callerVars, managerVars>>

\* callers that follow the documented pattern: canExecute, then the outcome
Callers == {"c1", "c2"}

\* A caller holds no permission ("none"), one that canExecute gave in the
\* half-open episode that is still running ("probe"), or one given earlier:
\* while Closed, or in an episode that has ended ("stale").
NoTicket == "none"

NoCall ==
  [op |-> "new", name |-> "", from |-> "none", arg |-> <<>>, ret |-> "void",
   id |-> 0, names |-> <<>>, statuses |-> <<>>, threw |-> FALSE]

\* the state after new CircuitBreaker(agentName, config)
InitBreaker ==
  /\ \E c \in Configs : breaker = NewBreaker(c)
  /\ now = 1
  /\ out = [op |-> "new", from |-> CLOSED, ret |-> "void", threw |-> FALSE,
            events |-> <<>>]
  /\ permits = 0
  /\ run = 0
  /\ lastFail = 0

\* a step of the lone breaker: no caller bookkeeping, no manager
Solo == UNCHANGED <<callerVars, managerVars>>

Out(op, r) ==
  [op |-> op, from |-> breaker.state, ret |-> r.ret, threw |-> r.threw,
   events |-> r.events]

PermissionChecks == {"canExecute", "getStatus"}

\* whether the permission check that produced r told its caller to proceed
Permitted(op, r) ==
  /\ ~r.threw
  /\ IF op = "getStatus" THEN r.ret.canExecute = "true" ELSE r.ret = "true"

PermitsAfter(op, pre, r) ==
  IF op \in {"recordSuccess", "recordFailure", "reset"} THEN 0
  ELSE IF op \notin PermissionChecks THEN permits
  ELSE IF pre.state = OPEN /\ r.cb.state = HALF_OPEN
       THEN (IF Permitted(op, r) THEN 1 ELSE 0)
  ELSE IF pre.state = HALF_OPEN /\ Permitted(op, r) THEN permits + 1
  ELSE permits

RunAfter(op, pre, r) ==
  IF r.cb.state = CLOSED /\ r.cb.failureCount = 0 THEN 0
  ELSE IF op = "recordFailure"
       THEN (IF run >= 0 /\ run < pre.config.failureThreshold
             THEN run + 1 ELSE -1)
  ELSE IF op \in {"recordSuccess", "setConfig"} THEN -1
  ELSE run

\* One call of a method: the fields it leaves, and the record of the call.
Call(op, r) ==
  /\ breaker' = r.cb
  /\ out' = Out(op, r)
  /\ permits' = PermitsAfter(op, breaker, r)
  /\ run' = RunAfter(op, breaker, r)
  /\ lastFail' = IF op = "recordFailure" THEN now ELSE lastFail
  /\ now' = now

\* what the variables of a part of the program hold in a specification that
\* leaves that part out
Unused == "unused"

NoManager ==
  /\ breakers = Unused
  /\ defaultConfig = Unused
  /\ nextId = Unused
  /\ mout = Unused

\* new CircuitBreaker(agentName, config), used on its own
Init ==
  /\ InitBreaker
  /\ tickets = Unused
  /\ NoManager

\* the same breaker shared by the callers of the documented pattern
InitCallers ==
  /\ InitBreaker
  /\ tickets = [c \in Callers |-> NoTicket]
  /\ NoManager

\* time passes between calls
Tick ==
  /\ now < MaxTime
  /\ now' = now + 1
  /\ UNCHANGED <<breaker, out, permits, run, lastFail, callerVars, managerVars>>

CanExecute ==
  /\ breaker.state = HALF_OPEN => permits < MaxPermits
  /\ \E thr \in BOOLEAN : Call("canExecute", canExecute(breaker, now, thr))
  /\ Solo

RecordSuccess ==
  /\ breaker.successCount < MaxSucc
  /\ \E thr \in BOOLEAN : Call("recordSuccess", recordSuccess(breaker, thr))
  /\ Solo

RecordFailure ==
  /\ breaker.failureCount < MaxFail
  /\ \E thr \in BOOLEAN : Call("recordFailure", recordFailure(breaker, now, thr))
  /\ Solo

Reset ==
  /\ \E thr \in BOOLEAN : Call("reset", reset(breaker, thr))
  /\ Solo

SetConfig ==
  /\ \E p \in PartialConfigs : Call("setConfig", setConfig(breaker, p))
  /\ Solo

GetStatus ==
  /\ breaker.state = HALF_OPEN => permits < MaxPermits
  /\ \E thr \in BOOLEAN : Call("getStatus", getStatus(breaker, now, thr))
  /\ Solo

Accessor ==
  /\ \E name \in Accessors : Call(name, accessor(breaker, name))
  /\ Solo

Next ==
  \/ Tick
  \/ CanExecute
  \/ RecordSuccess
  \/ RecordFailure
  \/ Reset
  \/ SetConfig
  \/ GetStatus
  \/ Accessor

Spec == Init /\ [][Next]_vars

\* ---------------------------------------- the breaker with quiet listeners
\* The same calls when no listener throws (or none is registered).
QuietCanExecute ==
  /\ breaker.state = HALF_OPEN => permits < MaxPermits
  /\ Call("canExecute", canExecute(breaker, now, FALSE))
  /\ Solo

QuietRecordSuccess ==
  /\ breaker.successCount < MaxSucc
  /\ Call("recordSuccess", recordSuccess(breaker, FALSE))
  /\ Solo

QuietRecordFailure ==
  /\ breaker.failureCount < MaxFail
  /\ Call("recordFailure", recordFailure(breaker, now, FALSE))
  /\ Solo

QuietReset ==
  /\ Call("reset", reset(breaker, FALSE))
  /\ Solo

QuietGetStatus ==
  /\ breaker.state = HALF_OPEN => permits < MaxPermits
  /\ Call("getStatus", getStatus(breaker, now, FALSE))
  /\ Solo

QuietNext ==
  \/ Tick
  \/ QuietCanExecute
  \/ QuietRecordSuccess
  \/ QuietRecordFailure
  \/ QuietReset
  \/ QuietGetStatus
  \/ SetConfig

SpecQuiet == Init /\ [][QuietNext]_vars

\* ------------------------------------------- callers that share a breaker
\* Each caller follows the README's callService: canExecute, then, if it
\* was permitted, the guarded call and recordSuccess or recordFailure. The
\* await between the two lets the callers' steps interleave.
TicketFor(r) == IF r.cb.state = HALF_OPEN THEN "probe" ELSE "stale"

\* the permissions left once the breaker is in state s: those of an episode
\* that has ended are no longer of the current episode
Expire(t, s) ==
  [c \in Callers |-> IF t[c] = "probe" /\ s # HALF_OPEN THEN "stale" ELSE t[c]]

CallerCanExecute ==
  /\ breaker.state = HALF_OPEN => permits < MaxPermits
  /\ \E c \in Callers, thr \in BOOLEAN :
       LET r == canExecute(breaker, now, thr)
       IN  /\ tickets[c] = "none"
           /\ Call("canExecute", r)
           /\ tickets' = IF r.ret = "true"
                         THEN [tickets EXCEPT ![c] = TicketFor(r)]
                         ELSE tickets
  /\ UNCHANGED managerVars

CallerRecordSuccess ==
  /\ breaker.successCount < MaxSucc
  /\ \E c \in Callers, thr \in BOOLEAN :
       LET r == recordSuccess(breaker, thr)
       IN  /\ tickets[c] # "none"
           /\ Call("recordSuccess", r)
           /\ tickets' = Expire([tickets EXCEPT ![c] = "none"], r.cb.state)
  /\ UNCHANGED managerVars

CallerRecordFailure ==
  /\ breaker.failureCount < MaxFail
  /\ \E c \in Callers, thr \in BOOLEAN :
       LET r == recordFailure(breaker, now, thr)
       IN  /\ tickets[c] # "none"
           /\ Call("recordFailure", r)
           /\ tickets' = Expire([tickets EXCEPT ![c] = "none"], r.cb.state)
  /\ UNCHANGED managerVars

\* hasAvailableAgent() and getAvailableAgents() call canExecute() on the
\* breaker; nobody reports an outcome for that call
ManagerCanExecute ==
  /\ breaker.state = HALF_OPEN => permits < MaxPermits
  /\ \E thr \in BOOLEAN : Call("canExecute", canExecute(breaker, now, thr))
  /\ Solo

CallersNext ==
  \/ Tick
  \/ CallerCanExecute
  \/ CallerRecordSuccess
  \/ CallerRecordFailure
  \/ ManagerCanExecute
  \/ GetStatus

SpecCallers == InitCallers /\ [][CallersNext]_vars

\* ------------------------------------------------- a manager and its users
loneVars == <<breaker, out, permits, run, lastFail, tickets>>

\* the state of the breaker managed under a name, "none" when there is none
StateOf(bs, name) ==
  IF Find(bs, name) # 0 THEN bs[Find(bs, name)].cb.state ELSE "none"

TheManager == Manager(breakers, defaultConfig, nextId)

\* One call of a manager method, or of a method of a breaker it handed out.
\* What it returned is kept by its type: a boolean or void in ret, the
\* breaker instance in id, the list of names or of statuses in its own field.
MCall(op, name, arg, m, ret, threw) ==
  /\ breakers' = m.breakers
  /\ defaultConfig' = m.defaultConfig
  /\ nextId' = m.nextId
  /\ mout' = [op |-> op, name |-> name,
              from |-> IF op \in {"getBreaker", "removeBreaker"}
                       THEN StateOf(breakers, name) ELSE "none",
              arg |-> arg,
              ret |-> IF op = "getBreaker" THEN "breaker"
                      ELSE IF op \in {"getAllStatus", "getAvailableAgents"}
                      THEN "list" ELSE ret,
              id |-> IF op = "getBreaker" THEN ret ELSE 0,
              names |-> IF op = "getAvailableAgents" THEN ret ELSE <<>>,
              statuses |-> IF op = "getAllStatus" THEN ret ELSE <<>>,
              threw |-> threw]
  /\ now' = now
  /\ UNCHANGED loneVars

\* new CircuitBreakerManager(defaultConfig)
InitManager ==
  /\ breaker = NewBreaker(DEFAULT_CIRCUIT_BREAKER_CONFIG)
  /\ defaultConfig \in ManagerConfigs
  /\ tickets = [c \in Callers |-> NoTicket]
  /\ breakers = <<>>
  /\ nextId = 1
  /\ mout = NoCall
  /\ now = 1
  /\ out = [op |-> "new", from |-> CLOSED, ret |-> "void", threw |-> FALSE,
            events |-> <<>>]
  /\ permits = 0
  /\ run = 0
  /\ lastFail = 0

GetBreaker ==
  \E name \in Names, cfg \in OptConfigs :
    LET r == getBreaker(TheManager, name, cfg)
    IN  /\ r.m.nextId <= MaxInstances + 1
        /\ MCall("getBreaker", name, cfg, r.m, r.ret, FALSE)

RemoveBreaker ==
  \E name \in Names :
    LET r == removeBreaker(TheManager, name)
    IN  MCall("removeBreaker", name, <<>>, r.m, r.ret, FALSE)

ResetAll ==
  \E thrs \in SUBSET Names :
    LET r == resetAll(TheManager, thrs)
    IN  MCall("resetAll", "", <<>>, r.m, r.ret, r.threw)

GetAllStatus ==
  \E thrs \in SUBSET Names :
    LET r == getAllStatus(TheManager, now, thrs)
    IN  MCall("getAllStatus", "", <<>>, r.m, r.ret, r.threw)

SetDefaultConfig ==
  \E c \in ManagerConfigs :
    LET r == setDefaultConfig(TheManager, c)
    IN  MCall("setDefaultConfig", "", <<>>, r.m, r.ret, FALSE)

HasAvailableAgent ==
  \E thrs \in SUBSET Names :
    LET r == hasAvailableAgent(TheManager, now, thrs)
    IN  MCall("hasAvailableAgent", "", <<>>, r.m, r.ret, r.threw)

GetAvailableAgents ==
  \E thrs \in SUBSET Names :
    LET r == getAvailableAgents(TheManager, now, thrs)
    IN  MCall("getAvailableAgents", "", <<>>, r.m, r.ret, r.threw)

\* the caller of getBreaker uses the breaker it was handed
OnBreaker(i, op, r) ==
  MCall(op, breakers[i].name, <<>>,
        Manager([breakers EXCEPT ![i].cb = r.cb], defaultConfig, nextId),
        r.ret, r.threw)

HandleCanExecute ==
  \E i \in 1..Len(breakers), thr \in BOOLEAN :
    OnBreaker(i, "canExecute", canExecute(breakers[i].cb, now, thr))

\* successCount only grows between resets and no method of the manager
\* reads it: a breaker's first success after a reset makes every transition
\* recordSuccess can make.
HandleRecordSuccess ==
  \E i \in 1..Len(breakers), thr \in BOOLEAN :
    /\ breakers[i].cb.successCount = 0
    /\ OnBreaker(i, "recordSuccess", recordSuccess(breakers[i].cb, thr))

HandleRecordFailure ==
  \E i \in 1..Len(breakers), thr \in BOOLEAN :
    /\ breakers[i].cb.failureCount < MaxThreshold
    /\ OnBreaker(i, "recordFailure", recordFailure(breakers[i].cb, now, thr))

\* The manager's calls are made at one instant: no claim about the manager
\* depends on time passing between them.
ManagerNext ==
  \/ GetBreaker
  \/ RemoveBreaker
  \/ ResetAll
  \/ GetAllStatus
  \/ SetDefaultConfig
  \/ HasAvailableAgent
  \/ GetAvailableAgents
  \/ HandleCanExecute
  \/ HandleRecordSuccess
  \/ HandleRecordFailure

SpecManager == InitManager /\ [][ManagerNext]_vars

\* ------------------------------ the breaker whose config is never replaced
FixedNext ==
  \/ Tick
  \/ CanExecute
  \/ RecordSuccess
  \/ RecordFailure
  \/ Reset
  \/ GetStatus

SpecFixed == Init /\ [][FixedNext]_vars

TypeOK ==
  /\ breaker.state \in CircuitState
  /\ breaker.failureCount \in 0..MaxFail
  /\ breaker.successCount \in 0..MaxSucc
  /\ breaker.lastFailureTime \in 0..MaxTime
  /\ breaker.halfOpenAttempts \in 0..1
  /\ breaker.config \in Configs
  /\ now \in 1..MaxTime
  /\ permits \in 0..MaxPermits
  /\ run \in -1..MaxThreshold
  /\ lastFail \in 0..MaxTime

\* ------------------------------------------------------------------ claims
\* the step is a call of method op (Tick is the one step that moves the clock)
IsCall(op) == now' = now /\ out'.op = op

Kinds(events) == [i \in 1..Len(events) |-> events[i].kind]

\* C1: in a half-open episode at most config.halfOpenAttempts permission
\* checks return true: once that many have, a further canExecute returns false.
C1_ProbesLimited ==
  [][(IsCall("canExecute") /\ breaker.state = HALF_OPEN
        /\ permits >= breaker.config.halfOpenAttempts)
     => out'.ret = "false"]_vars

\* C2: from Closed with failureCount 0, fewer than failureThreshold
\* recordFailure calls in a row leave the breaker Closed, and it is Open right
\* after the failureThreshold-th.
C2_ThresholdOpens ==
  /\ (run >= 0 /\ run < breaker.config.failureThreshold)
       => breaker.state = CLOSED
  /\ (out.op = "recordFailure" /\ run = breaker.config.failureThreshold)
       => breaker.state = OPEN

C2_Witness ==
  /\ out.op = "recordFailure"
  /\ breaker.config.failureThreshold = MaxThreshold
  /\ run = breaker.config.failureThreshold
  /\ breaker.state = OPEN

\* C3: while Open, canExecute before recoveryTimeout has elapsed since
\* lastFailureTime returns false and changes nothing; at or after it, it
\* returns true and leaves the breaker HalfOpen; no call is permitted while
\* Open sooner than recoveryTimeout after the most recent recordFailure.
C3_OpenGate ==
  [][(IsCall("canExecute") /\ breaker.state = OPEN)
     => /\ (now - breaker.lastFailureTime < breaker.config.recoveryTimeout)
             => (out'.ret = "false" /\ breaker' = breaker)
        /\ (now - breaker.lastFailureTime >= breaker.config.recoveryTimeout)
             => (out'.ret = "true" /\ breaker'.state = HALF_OPEN)
        /\ (now - lastFail < breaker.config.recoveryTimeout)
             => out'.ret # "true"]_vars

\* C4: recordSuccess while HalfOpen closes the breaker, zeroes failureCount
\* and halfOpenAttempts and emits exactly one "closed" notification.
C4_SuccessCloses ==
  [][(IsCall("recordSuccess") /\ breaker.state = HALF_OPEN)
     => /\ breaker'.state = CLOSED
        /\ breaker'.failureCount = 0
        /\ breaker'.halfOpenAttempts = 0
        /\ Kinds(out'.events) = <<"closed">>]_vars

C4_Witness ==
  /\ out.op = "recordSuccess"
  /\ out.from = HALF_OPEN
  /\ Kinds(out.events) = <<"closed">>
  /\ breaker.state = CLOSED

\* C5: recordFailure while HalfOpen opens the breaker in that call, zeroes
\* halfOpenAttempts and sets lastFailureTime to the current time, and a
\* canExecute made sooner than recoveryTimeout after it is denied.
C5_FailureReopens ==
  [][/\ (IsCall("recordFailure") /\ breaker.state = HALF_OPEN)
          => /\ breaker'.state = OPEN
             /\ breaker'.halfOpenAttempts = 0
             /\ breaker'.lastFailureTime = now
     /\ (IsCall("canExecute") /\ breaker.state = OPEN
           /\ now - lastFail < breaker.config.recoveryTimeout)
          => (out'.ret = "false" /\ breaker'.state = OPEN)]_vars

C5_Witness ==
  /\ out.op = "recordFailure"
  /\ out.from = HALF_OPEN
  /\ breaker.state = OPEN
  /\ breaker.halfOpenAttempts = 0
  /\ breaker.lastFailureTime = now
  /\ breaker.config.recoveryTimeout > 0

\* C6 as stated: a notification of any kind is emitted only by an operation
\* that changes the state value; an operation whose pre-state equals its
\* post-state emits nothing.
C6_OnlyOnStateChange ==
  [][(now' = now /\ breaker'.state = breaker.state) => out'.events = <<>>]_vars

\* C6 as amended: "opened", "closed" and "half-open" are emitted only by an
\* operation that changes the state value, and every operation other than
\* reset whose pre-state equals its post-state emits nothing; reset emits
\* "reset" whether or not it changes the state value, and nothing else does.
C6_OnlyOnStateChangeOrReset ==
  [][now' = now
     => /\ (breaker'.state = breaker.state /\ out'.op # "reset")
             => out'.events = <<>>
        /\ \A i \in 1..Len(out'.events) :
             IF out'.events[i].kind = "reset"
             THEN out'.op = "reset"
             ELSE breaker'.state # breaker.state]_vars

C6_Witness ==
  /\ out.op = "recordFailure"
  /\ out.from = OPEN
  /\ breaker.state = OPEN
  /\ out.events = <<>>

\* C7: reset from any state leaves the breaker Closed with failureCount,
\* successCount, halfOpenAttempts and lastFailureTime 0 and its config as it
\* was, and emits exactly one "reset" notification.
C7_ResetRestores ==
  [][IsCall("reset")
     => /\ breaker' = NewBreaker(breaker.config)
        /\ Kinds(out'.events) = <<"reset">>]_vars

C7_Witness ==
  /\ out.op = "reset"
  /\ out.from = HALF_OPEN
  /\ Kinds(out.events) = <<"reset">>
  /\ breaker = NewBreaker(breaker.config)

\* C8: the state value changes only Closed->Open by recordFailure,
\* Open->HalfOpen by a permission check (canExecute, also when getStatus
\* makes it), HalfOpen->Closed by recordSuccess, HalfOpen->Open by
\* recordFailure, and any->Closed by reset.
C8_Edges ==
  [][breaker'.state # breaker.state
     => /\ now' = now
        /\ \/ out'.op = "reset" /\ breaker'.state = CLOSED
           \/ /\ breaker.state = CLOSED /\ breaker'.state = OPEN
              /\ out'.op = "recordFailure"
           \/ /\ breaker.state = OPEN /\ breaker'.state = HALF_OPEN
              /\ out'.op \in PermissionChecks
           \/ /\ breaker.state = HALF_OPEN /\ breaker'.state = CLOSED
              /\ out'.op = "recordSuccess"
           \/ /\ breaker.state = HALF_OPEN /\ breaker'.state = OPEN
              /\ out'.op = "recordFailure"]_vars

C8_Witness ==
  /\ out.op = "getStatus"
  /\ out.from = OPEN
  /\ breaker.state = HALF_OPEN

\* what the call leaves when no listener throws
Quiet(op, cb, t) ==
  CASE op = "canExecute" -> canExecute(cb, t, FALSE)
    [] op = "recordSuccess" -> recordSuccess(cb, FALSE)
    [] op = "recordFailure" -> recordFailure(cb, t, FALSE)
    [] op = "reset" -> reset(cb, FALSE)

\* C9: an exception thrown by a listener never leaves canExecute,
\* recordSuccess, recordFailure or reset, and after the call the fields are
\* what they would be with a listener that does not throw.
C9_ListenerIsolated ==
  [][\A op \in {"canExecute", "recordSuccess", "recordFailure", "reset"} :
       IsCall(op)
       => /\ out'.ret # "throw"
          /\ breaker' = Quiet(op, breaker, now).cb]_vars

\* C10: the accessors change no field and emit nothing; getStatus changes the
\* breaker only when it is Open and the recovery timeout has elapsed, and then
\* leaves it HalfOpen with halfOpenAttempts 1 and one "half-open" notification.
C10_ReadsAreFrameSafe ==
  [][/\ \A name \in Accessors :
          IsCall(name) => (breaker' = breaker /\ out'.events = <<>>)
     /\ IsCall("getStatus")
          => IF breaker.state = OPEN /\ shouldAttemptRecovery(breaker, now)
             THEN /\ breaker' = [breaker EXCEPT !.state = HALF_OPEN,
                                                !.halfOpenAttempts = 1]
                  /\ Kinds(out'.events) = <<"half-open">>
             ELSE breaker' = breaker /\ out'.events = <<>>]_vars

\* C11: recordFailure in every state, Open included, adds exactly 1 to
\* failureCount and sets lastFailureTime to the current time, so failureCount
\* may exceed failureThreshold and a failure reported while Open puts the
\* earliest permitted probe recoveryTimeout after that report.
C11_FailureAlwaysCounts ==
  [][/\ IsCall("recordFailure")
          => /\ breaker'.failureCount = breaker.failureCount + 1
             /\ breaker'.lastFailureTime = now
             /\ breaker'.successCount = breaker.successCount
             /\ breaker'.config = breaker.config
     /\ (IsCall("canExecute") /\ out'.from = OPEN
           /\ now < lastFail + breaker.config.recoveryTimeout)
          => (out'.ret = "false" /\ breaker' = breaker)]_vars

C11_Witness ==
  /\ out.op = "recordFailure"
  /\ out.from = OPEN
  /\ breaker.state = OPEN
  /\ breaker.failureCount > breaker.config.failureThreshold
  /\ breaker.lastFailureTime = now
  /\ now > 1

C20_StatusConsistent ==
  [][(IsCall("getStatus") /\ ~out'.threw)
     => /\ out'.ret.state = breaker'.state
        /\ ~(out'.ret.state = OPEN /\ out'.ret.canExecute = "true")]_vars

\* C17: with listeners that do not throw, in every state reachable by
\* canExecute, recordSuccess, recordFailure, reset, getStatus and setConfig,
\* halfOpenAttempts is 1 when the breaker is HalfOpen and 0 when it is Closed
\* or Open.
C17_AttemptsFollowState ==
  breaker.halfOpenAttempts = IF breaker.state = HALF_OPEN THEN 1 ELSE 0

C17_Witness ==
  /\ breaker.state = HALF_OPEN
  /\ breaker.halfOpenAttempts = 1
  /\ out.op = "setConfig"
  /\ breaker.config.halfOpenAttempts = MaxAttempts

\* C18: with failureThreshold >= 1 and the config never replaced, a Closed
\* breaker has failureCount < failureThreshold and an Open or HalfOpen one has
\* failureCount >= failureThreshold.
C18_CountMatchesState ==
  IF breaker.state = CLOSED
  THEN breaker.failureCount < breaker.config.failureThreshold
  ELSE breaker.failureCount >= breaker.config.failureThreshold

C18_Witness ==
  /\ breaker.state = HALF_OPEN
  /\ breaker.failureCount > breaker.config.failureThreshold
  /\ breaker.config.failureThreshold = MaxThreshold
  /\ breaker.successCount > 0

\* no caller holds a permission it has still to report on
NoReportDue == \A c \in Callers : tickets[c] = "none"

\* HalfOpen with the probes used up and nobody left to report: canExecute
\* answers false, and only a report, reset or setConfig would change that
Stuck ==
  /\ breaker.state = HALF_OPEN
  /\ breaker.halfOpenAttempts >= breaker.config.halfOpenAttempts
  /\ NoReportDue

\* once Stuck, always Stuck, and every canExecute is denied
StuckForever ==
  [][Stuck => /\ Stuck'
              /\ IsCall("canExecute") => out'.ret = "false"
              /\ IsCall("getStatus") => out'.ret.canExecute = "false"]_vars

\* C16: when callers report only on calls canExecute permitted, the breaker
\* never reaches a state in which every later canExecute is denied, also with
\* getStatus and the manager's permission checks in between.
C16_RecoveryPossible == ~Stuck

\* C19: with interleaved callers the breaker goes HalfOpen->Closed only on the
\* success of a call that canExecute permitted in the current half-open
\* episode, never on one permitted before the breaker opened.
C19_OnlyProbesClose ==
  [][(breaker.state = HALF_OPEN /\ breaker'.state = CLOSED)
     => \E c \in Callers : tickets[c] = "probe" /\ tickets'[c] = "none"]_vars

\* ------------------------------------------------------------ the manager
IsManagerCall(op) == mout'.op = op /\ ~mout'.threw

\* C13: while a name stays managed its breaker is the same instance, and a
\* getBreaker for a managed name returns that instance and changes nothing,
\* whatever config it is passed.
C13_SameInstance ==
  [][\A n \in Names :
       LET i == Find(breakers, n)
           j == Find(breakers', n)
       IN  i # 0 =>
             /\ ~(IsManagerCall("removeBreaker") /\ mout'.name = n)
                  => j # 0 /\ breakers'[j].id = breakers[i].id
             /\ (IsManagerCall("getBreaker") /\ mout'.name = n)
                  => /\ mout'.id = breakers[i].id
                     /\ breakers' = breakers
                     /\ nextId' = nextId
                     /\ defaultConfig' = defaultConfig]_vars

\* a getBreaker with a config other than the managed breaker's own, on a
\* breaker that is Open, returned that breaker
C13_Witness ==
  /\ mout.op = "getBreaker"
  /\ mout.from = OPEN
  /\ mout.arg # <<>>
  /\ LET i == Find(breakers, mout.name)
     IN  /\ i # 0
         /\ mout.id = breakers[i].id
         /\ breakers[i].cb.state = OPEN
         /\ breakers[i].cb.config # mout.arg[1]

\* C14: removeBreaker of an unmanaged name returns false and changes nothing;
\* of a managed name it returns true and takes the entry out, whatever its
\* state; a getBreaker for an unmanaged name makes a breaker that is Closed
\* with all counters 0 and is an instance the manager never handed out.
C14_RemoveThenFresh ==
  [][/\ nextId' >= nextId
     /\ \A i \in 1..Len(breakers') : breakers'[i].id < nextId'
     /\ \A n \in Names :
          LET i == Find(breakers, n)
              j == Find(breakers', n)
          IN  /\ (IsManagerCall("removeBreaker") /\ mout'.name = n)
                   => IF i = 0
                      THEN mout'.ret = "false" /\ UNCHANGED managerState
                      ELSE /\ mout'.ret = "true"
                           /\ breakers' = Without(breakers, i)
                           /\ j = 0
              /\ (IsManagerCall("getBreaker") /\ mout'.name = n /\ i = 0)
                   => /\ j # 0
                      /\ breakers'[j].id = nextId
                      /\ mout'.id = nextId
                      /\ breakers'[j].cb.state = CLOSED
                      /\ breakers'[j].cb.failureCount = 0
                      /\ breakers'[j].cb.successCount = 0
                      /\ breakers'[j].cb.halfOpenAttempts = 0
                      /\ breakers'[j].cb.lastFailureTime = 0]_vars

\* a removeBreaker of a managed breaker that was Open returned true and the
\* name is no longer managed
C14_Witness ==
  /\ mout.op = "removeBreaker"
  /\ mout.from = OPEN
  /\ mout.ret = "true"
  /\ Find(breakers, mout.name) = 0

\* C15: hasAvailableAgent returns true exactly when a canExecute on some
\* managed breaker would return true at that moment, and a getAvailableAgents
\* that comes right after a hasAvailableAgent that returned true returns a
\* non-empty list.
C15_AvailabilityAgrees ==
  [][/\ IsManagerCall("hasAvailableAgent")
          => (mout'.ret = "true"
               <=> \E i \in 1..Len(breakers) :
                     canExecute(breakers[i].cb, now, FALSE).ret = "true")
     /\ (/\ mout.op = "hasAvailableAgent"
         /\ mout.ret = "true"
         /\ IsManagerCall("getAvailableAgents"))
          => mout'.names # <<>>]_vars

====
